---- MODULE Spec2Model ----
(***************************************************************************)
(* Model of the tortoise adapter utilities                                 *)
(* (starlette_admin/contrib/tortoise/utils.py) and of the authentication   *)
(* fixtures of tests/test_auth.py.                                         *)
(*                                                                         *)
(* A behaviour is either one call of one utility function (call names the  *)
(* function, arg its arguments, res what it returned or raised) or one     *)
(* client session against the admin application (call = "auth").           *)
(*                                                                         *)
(* Strings the code splits or lower-cases are sequences of one-character   *)
(* strings; strings the code only compares, measures or concatenates are   *)
(* TLA+ strings.  Python values whose type the code inspects are tagged    *)
(* records [tag, v].                                                       *)
(***************************************************************************)
EXTENDS Integers, Sequences, FiniteSets, TLC

VARIABLES call, pc, arg, res, cookies, session

vars == <<call, pc, arg, res, cookies, session>>

(***************************************************************************)
(* Python values and outcomes                                              *)
(***************************************************************************)
None == [tag |-> "none", v |-> 0]

Str(s) == [tag |-> "str", v |-> s]

Bool(b) == [tag |-> "bool", v |-> b]

Num(n) == [tag |-> "int", v |-> n]

Dict(f) == [tag |-> "dict", v |-> f]

Cls(c) == [tag |-> "class", v |-> c]

Truthy(x) ==
    CASE x.tag = "none" -> FALSE
      [] x.tag = "str" -> x.v # <<>>
      [] x.tag = "bool" -> x.v
      [] x.tag = "int" -> x.v # 0
      [] x.tag = "dict" -> DOMAIN x.v # {}
      [] OTHER -> TRUE

Ok(v) == [ok |-> TRUE, value |-> v]

Raise(e) == [ok |-> FALSE, exc |-> e]

NoArg == [none |-> TRUE]

NoCookies == [c \in {} |-> ""]

(***************************************************************************)
(* Bounds                                                                  *)
(***************************************************************************)
MaxOrderBys == 2

MaxDepth == 1

MaxApply == 2

MaxData == 2

MaxFields == 2

(***************************************************************************)
(* starlette_admin_order_by2tortoise_order_by                              *)
(***************************************************************************)
RECURSIVE split(_, _)
split(s, sep) ==
    IF \E i \in 1..Len(s) : s[i] = sep
    THEN LET i == CHOOSE j \in 1..Len(s) :
                     s[j] = sep /\ \A k \in 1..(j - 1) : s[k] # sep
         IN <<SubSeq(s, 1, i - 1)>> \o split(SubSeq(s, i + 1, Len(s)), sep)
    ELSE <<s>>

convert(order_by) ==
    LET parts == split(order_by, " ")
    IN IF Len(parts) # 2
       THEN Raise("ValueError")
       ELSE LET field_part == parts[1]
                order_part == IF order_by = <<"a", "c", "s">> THEN <<>> ELSE <<"-">>
            IN Ok(order_part \o field_part)

starlette_admin_order_by2tortoise_order_by(order_bys) ==
    LET mapped == [i \in 1..Len(order_bys) |-> convert(order_bys[i])]
    IN IF \E i \in 1..Len(mapped) : ~mapped[i].ok
       THEN mapped[CHOOSE i \in 1..Len(mapped) :
                       ~mapped[i].ok /\ \A k \in 1..(i - 1) : mapped[k].ok]
       ELSE Ok([i \in 1..Len(mapped) |-> mapped[i].value])

asc == <<"a", "s", "c">>

desc == <<"d", "e", "s", "c">>

OrderByStrings ==
    { <<"i", "d", " ">> \o asc, <<"i", "d", " ">> \o desc,
      <<"n", " ">> \o asc, <<"n", " ">> \o desc,
      <<"a", "c", "s">>, <<"i", "d">>, <<"i", "d", " ", " ">> \o asc }

OrderBys == UNION {[1..n -> OrderByStrings] : n \in 0..MaxOrderBys}

InitOrderBy ==
    /\ call = "order_by"
    /\ pc = "start"
    /\ arg \in {[order_bys |-> o] : o \in OrderBys}
    /\ res = NoArg
    /\ cookies = NoCookies
    /\ session = "-"

CallOrderBy ==
    /\ call = "order_by"
    /\ pc = "start"
    /\ res' = starlette_admin_order_by2tortoise_order_by(arg.order_bys)
    /\ pc' = "done"
    /\ UNCHANGED <<call, arg, cookies, session>>

(***************************************************************************)
(* remove_nones: a dict is a function from its keys to tagged values       *)
(***************************************************************************)
RECURSIVE remove_nones_or_none(_)
remove_nones_or_none(item) ==
    LET inner(v) == IF v.tag = "dict"
                    THEN LET r == remove_nones_or_none(v.v)
                         IN IF DOMAIN r = {} THEN None ELSE Dict(r)
                    ELSE v
    IN [k \in {j \in DOMAIN item : item[j].tag # "none"} |-> inner(item[k])]

remove_nones_shallow(item) ==
    [k \in {j \in DOMAIN item : item[j].tag # "none"} |-> item[k]]

RECURSIVE remove_nones(_)
remove_nones(item) ==
    [k \in {j \in DOMAIN item : item[j].tag # "none"} |->
        IF item[k].tag = "dict" THEN Dict(remove_nones(item[k].v)) ELSE item[k]]

ItemKeys == {"a", "b"}

Leaves == {None, Num(1)}

RECURSIVE Items(_)
Items(depth) ==
    LET values == IF depth = 0 THEN Leaves
                  ELSE Leaves \cup {Dict(m) : m \in Items(depth - 1)}
    IN UNION {[D -> values] : D \in SUBSET ItemKeys}

\* Chains three and four dicts deep, beyond the depth enumerated in full.
DeepItems ==
    LET d(f) == Dict(f)
        bottom == [a |-> None, b |-> Num(1)]
        allNone == [a |-> None, b |-> None]
    IN { [a |-> d([a |-> d(bottom)]), b |-> None],
         [a |-> d([b |-> d([a |-> d(bottom), b |-> None])])],
         [a |-> d([a |-> d(allNone)])],
         [a |-> d([a |-> d([a |-> d(allNone)]), b |-> Num(1)]), b |-> d(allNone)] }

InitRemoveNones ==
    /\ call = "remove_nones"
    /\ pc = "start"
    /\ arg \in {[item |-> m] : m \in Items(MaxDepth) \cup DeepItems}
    /\ res = <<>>
    /\ cookies = NoCookies
    /\ session = "-"

\* remove_nones applied to the payload, then to its own result.
CallRemoveNones ==
    /\ call = "remove_nones"
    /\ Len(res) < MaxApply
    /\ res' = Append(res, remove_nones(IF res = <<>> THEN arg.item ELSE res[Len(res)]))
    /\ pc' = "done"
    /\ UNCHANGED <<call, arg, cookies, session>>

(***************************************************************************)
(* add_id2fk_fields: data is an insertion-ordered dict, a sequence of      *)
(* <<key, value>> pairs with distinct keys                                 *)
(***************************************************************************)
DictKeys(d) == {d[i][1] : i \in 1..Len(d)}

DictGet(d, k) == d[CHOOSE i \in 1..Len(d) : d[i][1] = k][2]

DictPut(d, k, v) ==
    IF k \in DictKeys(d)
    THEN [i \in 1..Len(d) |-> IF d[i][1] = k THEN <<k, v>> ELSE d[i]]
    ELSE Append(d, <<k, v>>)

add_id2fk_fields_inverted(data, fields) ==
    LET fk_fields_ == {fields[i] : i \in 1..Len(fields)}
        convert_key(k) == IF k \in fk_fields_ THEN k ELSE k \o "_id"
        RECURSIVE comprehension(_)
        comprehension(n) ==
            IF n = 0 THEN <<>>
            ELSE DictPut(comprehension(n - 1), convert_key(data[n][1]), data[n][2])
    IN comprehension(Len(data))

add_id2fk_fields(data, fields) ==
    LET fk_fields_ == {fields[i] : i \in 1..Len(fields)}
        convert_key(k) == IF k \notin fk_fields_ THEN k ELSE k \o "_id"
        RECURSIVE comprehension(_)
        comprehension(n) ==
            IF n = 0 THEN <<>>
            ELSE DictPut(comprehension(n - 1), convert_key(data[n][1]), data[n][2])
    IN comprehension(Len(data))

DataKeys == {"a", "b", "a_id"}

DataValues == {1, 2}

Datas ==
    {d \in UNION {[1..n -> DataKeys \X DataValues] : n \in 0..MaxData} :
        \A i, j \in 1..Len(d) : i # j => d[i][1] # d[j][1]}

FkFields == {<<>>, <<"a">>, <<"b">>, <<"a", "b">>, <<"a", "a_id">>, <<"b", "b">>}

InitAddId ==
    /\ call = "add_id2fk_fields"
    /\ pc = "start"
    /\ arg \in {[data |-> d, fields |-> f] : d \in Datas, f \in FkFields}
    /\ res = NoArg
    /\ cookies = NoCookies
    /\ session = "-"

CallAddId ==
    /\ call = "add_id2fk_fields"
    /\ pc = "start"
    /\ res' = Ok(add_id2fk_fields(arg.data, arg.fields))
    /\ pc' = "done"
    /\ UNCHANGED <<call, arg, cookies, session>>

(***************************************************************************)
(* Field mapping: tortoise2starlette_admin_fields_mapper, identity,        *)
(* related_starlette_field, tortoise_fields2starlette_fields               *)
(***************************************************************************)
tortoise2starlette_admin_fields_mapper ==
    [t \in {"IntField", "BigIntField", "SmallIntField", "IntEnumField", "CharField",
            "CharEnumField", "BooleanField", "DateField", "DatetimeField",
            "FloatField", "DecimalField", "UUIDField", "ForeignKeyFieldInstance",
            "OneToOneFieldInstance", "ManyToManyFieldInstance", "TextField",
            "TimeField"} |->
        CASE t \in {"IntField", "BigIntField", "SmallIntField"} -> "IntegerField"
          [] t = "IntEnumField" -> "IntEnum"
          [] t \in {"CharField", "UUIDField"} -> "StringField"
          [] t = "CharEnumField" -> "EnumField"
          [] t = "BooleanField" -> "BooleanField"
          [] t = "DateField" -> "DateField"
          [] t = "DatetimeField" -> "DateTimeField"
          [] t = "FloatField" -> "FloatField"
          [] t = "DecimalField" -> "DecimalField"
          [] t \in {"ForeignKeyFieldInstance", "OneToOneFieldInstance"} -> "HasOne"
          [] t = "ManyToManyFieldInstance" -> "HasMany"
          [] t = "TextField" -> "TinyMCEEditorField"
          [] t = "TimeField" -> "TimeField"]

\* str.lower on the letters the model names are written with.
lower(s) ==
    [i \in 1..Len(s) |->
        CASE s[i] = "P" -> "p" [] s[i] = "T" -> "t" [] s[i] = "M" -> "m" [] OTHER -> s[i]]

identity(model_name, app_name) ==
    LET prefix == IF Truthy(app_name) THEN app_name.v \o <<"_">> ELSE <<>>
        parts == split(model_name, ".")
    IN prefix \o lower(parts[Len(parts)])

\* dict.update / {**a, **b}: the entries of b override those of a.
Update(a, b) == [k \in DOMAIN a \cup DOMAIN b |-> IF k \in DOMAIN b THEN b[k] ELSE a[k]]

Pop(d, key) == [k \in DOMAIN d \ {key} |-> d[k]]

Get(d, key, default) == IF key \in DOMAIN d THEN d[key] ELSE default

\* tortoise2starlette_admin_fields_mapper[type(field)] with a fallback class
\* in place of the KeyError.
mapper_getitem_default(field_type) ==
    Ok(Get(tortoise2starlette_admin_fields_mapper, field_type, "StringField"))

\* tortoise2starlette_admin_fields_mapper[type(field)]
mapper_getitem(field_type) ==
    IF field_type \in DOMAIN tortoise2starlette_admin_fields_mapper
    THEN Ok(tortoise2starlette_admin_fields_mapper[field_type])
    ELSE Raise("KeyError")

\* The UI field constructors belong to the admin framework: a built field is
\* recorded as its class and the keyword arguments it was called with.
related_starlette_field(field_map_item, configs) ==
    LET name == field_map_item[1]
        field == field_map_item[2]
        popped == Get(configs, "type", None)
        configs1 == Pop(configs, "type")
        starlette_field_type ==
            IF Truthy(popped) THEN Ok(popped.v) ELSE mapper_getitem(field.type)
        starlette_field_type_init_kwargs ==
            [k \in {"name", "label", "required"} |->
                IF k = "required" THEN Bool(field.required) ELSE Str(name)]
        field_type == field.type
        typed ==
            CASE field_type \in {"ForeignKeyFieldInstance", "OneToOneFieldInstance"} ->
                   Update(starlette_field_type_init_kwargs, [identity |->
                       Str(identity(field.model_name, Get(configs1, "_app_name_", None)))])
              [] field_type = "CharField" ->
                   Update(starlette_field_type_init_kwargs,
                          [maxlength |-> Num(field.max_length)])
              [] field_type = "CharEnumField" ->
                   Update(starlette_field_type_init_kwargs, [enum |-> Cls(field.enum_type)])
              [] field_type = "DatetimeField" ->
                   Update(starlette_field_type_init_kwargs, [required |->
                       Bool(field.required /\ ~field.auto_now_add /\ ~field.auto_now)])
              [] OTHER -> starlette_field_type_init_kwargs
    IN IF ~starlette_field_type.ok
       THEN starlette_field_type
       ELSE Ok([cls |-> starlette_field_type.value,
                kwargs |-> Pop(Update(typed, configs1), "_app_name_")])

\* model is the fields map, a sequence of <<name, field>> pairs; kwargs maps
\* field names to their per-field configs.
tortoise_fields2starlette_fields(model, _app_name_, kwargs) ==
    LET made == [i \in 1..Len(model) |->
                    related_starlette_field(
                        model[i],
                        Update([_app_name_ |-> _app_name_],
                               Get(kwargs, model[i][1], <<>>)))]
    IN IF \E i \in 1..Len(made) : ~made[i].ok
       THEN made[CHOOSE i \in 1..Len(made) :
                     ~made[i].ok /\ \A k \in 1..(i - 1) : made[k].ok]
       ELSE Ok([i \in 1..Len(made) |-> made[i].value])

Field(type, required, model_name) ==
    [type |-> type, required |-> required, model_name |-> model_name,
     max_length |-> 8, enum_type |-> "Color", auto_now |-> FALSE,
     auto_now_add |-> type = "DatetimeField"]

Post == <<"m", ".", "P", "o", "s", "t">>

Tag == <<"T", "a", "g">>

RelationTypes ==
    {"ForeignKeyFieldInstance", "OneToOneFieldInstance", "ManyToManyFieldInstance"}

FieldDescs ==
    { Field("IntField", TRUE, <<>>), Field("CharField", FALSE, <<>>),
      Field("CharEnumField", TRUE, <<>>), Field("DatetimeField", TRUE, <<>>),
      Field("ForeignKeyFieldInstance", TRUE, Post),
      Field("OneToOneFieldInstance", FALSE, Tag),
      Field("ManyToManyFieldInstance", FALSE, Tag),
      Field("JSONField", TRUE, <<>>) }

FieldConfigs ==
    { <<>>, [type |-> Cls("StringField")], [type |-> None],
      [identity |-> Str(<<"x">>)] }

FieldNames == << <<"f", "1">>, <<"f", "2">>, <<"f", "3">>, <<"f", "4">> >>

FieldName(i) == FieldNames[i]

AppNames == {None, Str(<<>>), Str(<<"b", "l", "o", "g">>)}

\* The bound models: up to MaxFields fields, each with an optional config.
Bindings ==
    UNION {[1..n -> FieldDescs \X FieldConfigs] : n \in 1..MaxFields}

FieldsArg(b, app) ==
    [model |-> [i \in 1..Len(b) |-> <<FieldName(i), b[i][1]>>],
     _app_name_ |-> app,
     kwargs |-> [nm \in {FieldName(i) : i \in {j \in 1..Len(b) : b[j][2] # <<>>}} |->
                    b[CHOOSE i \in 1..Len(b) : FieldName(i) = nm][2]]]

InitFields ==
    /\ call = "tortoise_fields2starlette_fields"
    /\ pc = "start"
    /\ arg \in {FieldsArg(b, app) : b \in Bindings, app \in AppNames}
    /\ res = NoArg
    /\ cookies = NoCookies
    /\ session = "-"

CallFields ==
    /\ call = "tortoise_fields2starlette_fields"
    /\ pc = "start"
    /\ res' = tortoise_fields2starlette_fields(arg.model, arg._app_name_, arg.kwargs)
    /\ pc' = "done"
    /\ UNCHANGED <<call, arg, cookies, session>>

(***************************************************************************)
(* tests/test_auth.py: the users table, the view permissions and the       *)
(* authentication provider                                                 *)
(***************************************************************************)
users ==
    [u \in {"admin", "john", "terry", "doe"} |->
        CASE u = "admin" -> <<"admin">>
          [] u = "john" -> <<"post:list", "post:detail">>
          [] u = "terry" -> <<"post:list", "post:create", "post:edit">>
          [] u = "doe" -> <<"">>]

\* x in list
In(x, list) == \E i \in 1..Len(list) : list[i] = x

ReportView_is_accessible(user_roles) == In("admin", user_roles)

PostView_is_accessible_admin_only(user_roles) == In("admin", user_roles)

PostView_is_accessible(user_roles) ==
    In("admin", user_roles) \/ In("post:list", user_roles)

PostView_can_delete(user_roles) == In("admin", user_roles)

\* A response carries the cookies it sets and the cookies it deletes.
NewResponse == [set_cookies |-> NoCookies, del_cookies |-> {}]

set_cookie(response, key, value) ==
    [response EXCEPT !.set_cookies = Update(@, [k \in {key} |-> value])]

delete_cookie(response, key) ==
    [response EXCEPT !.del_cookies = @ \cup {key}]

FormValidationError(errors) ==
    [ok |-> FALSE, exc |-> "FormValidationError", errors |-> errors]

LoginFailed(msg) == [ok |-> FALSE, exc |-> "LoginFailed", msg |-> msg]

\* login's outcome (the returned response or the exception raised) together
\* with the response object it was handed, as the call left it.
MyAuthProvider_login_any_password(username, password, response) ==
    IF Len(username) < 3
    THEN [outcome |-> FormValidationError(
                          [username |-> "Ensure username has at least 03 characters"]),
          response |-> response]
    ELSE IF username \in DOMAIN users
         THEN [outcome |-> Ok(set_cookie(response, "session", username)),
               response |-> set_cookie(response, "session", username)]
         ELSE [outcome |-> LoginFailed("Invalid username or password"),
               response |-> response]

MyAuthProvider_login(username, password, response) ==
    IF Len(username) < 3
    THEN [outcome |-> FormValidationError(
                          [username |-> "Ensure username has at least 03 characters"]),
          response |-> response]
    ELSE IF username \in DOMAIN users /\ password = "password"
         THEN [outcome |-> Ok(set_cookie(response, "session", username)),
               response |-> set_cookie(response, "session", username)]
         ELSE [outcome |-> LoginFailed("Invalid username or password"),
               response |-> response]

\* The request state the provider leaves behind: whether the request is
\* authenticated and, if so, the user and the user's roles.
MyAuthProvider_is_authenticated(request_cookies) ==
    IF "session" \in DOMAIN request_cookies
          /\ request_cookies["session"] \in DOMAIN users
    THEN [authenticated |-> TRUE, user |-> request_cookies["session"],
          user_roles |-> users[request_cookies["session"]]]
    ELSE [authenticated |-> FALSE, user |-> "", user_roles |-> <<>>]

MyAuthProvider_logout_keeps_cookie(response) == response

MyAuthProvider_logout(response) == delete_cookie(response, "session")

(***************************************************************************)
(* The client and the admin application's routes                           *)
(***************************************************************************)
\* The client's cookie jar after a response: deleted cookies leave it, set
\* cookies enter it.
Absorb(jar, response) ==
    LET kept == [k \in DOMAIN jar \ response.del_cookies |-> jar[k]]
    IN Update(kept, response.set_cookies)

\* A guarded route answers 303 (redirect to the login page) to a request that
\* is not authenticated, and otherwise what its view's permission decides.
RouteStatus(route, state) ==
    IF ~state.authenticated THEN 303
    ELSE CASE route = "report" ->
                IF ReportView_is_accessible(state.user_roles) THEN 200 ELSE 403
           [] route \in {"post_list", "api_post"} ->
                IF PostView_is_accessible(state.user_roles) THEN 200 ELSE 403
           [] route = "api_post_action_delete" ->
                IF PostView_can_delete(state.user_roles) THEN 200 ELSE 400

Routes == {"report", "post_list", "api_post", "api_post_action_delete"}

Usernames == {"", "ad", "admin", "john", "terry", "doe", "bob"}

Passwords == {"password", "invalid-password"}

\* A client may come with no cookie, a stale cookie or a valid one.
InitAuth ==
    /\ call = "auth"
    /\ pc = "start"
    /\ arg = NoArg
    /\ res = NoArg
    /\ cookies \in {NoCookies, [session |-> "bob"], [session |-> "john"]}
    /\ session = "-"

\* POST /admin/login: the response login returns reaches the client; when
\* login raises, the client gets the login page with the error instead.
Login ==
    /\ call = "auth"
    /\ \E username \in Usernames, password \in Passwords :
         LET r == MyAuthProvider_login(username, password, NewResponse)
         IN /\ arg' = [op |-> "login", username |-> username, password |-> password]
            /\ res' = r
            /\ cookies' = IF r.outcome.ok THEN Absorb(cookies, r.outcome.value)
                           ELSE cookies
            /\ session' = IF r.outcome.ok THEN username ELSE session
    /\ pc' = "done"
    /\ UNCHANGED call

\* GET /admin/logout
Logout ==
    /\ call = "auth"
    /\ arg' = [op |-> "logout"]
    /\ res' = Ok(MyAuthProvider_logout(NewResponse))
    /\ cookies' = Absorb(cookies, MyAuthProvider_logout(NewResponse))
    /\ session' = "out"
    /\ pc' = "done"
    /\ UNCHANGED call

\* A request to one of the guarded routes with the client's cookies.
Request ==
    /\ call = "auth"
    /\ \E route \in Routes :
         LET state == MyAuthProvider_is_authenticated(cookies)
         IN /\ arg' = [op |-> "request", route |-> route]
            /\ res' = [status |-> RouteStatus(route, state), state |-> state]
    /\ pc' = "done"
    /\ UNCHANGED <<call, cookies, session>>

(***************************************************************************)
(* Specification                                                           *)
(***************************************************************************)
Init == InitOrderBy \/ InitRemoveNones \/ InitAddId \/ InitFields \/ InitAuth

Next ==
    \/ CallOrderBy \/ CallRemoveNones \/ CallAddId \/ CallFields
    \/ Login \/ Logout \/ Request

Spec == Init /\ [][Next]_vars

WellFormedOrderBy(s) ==
    /\ Len(split(s, " ")) = 2
    /\ split(s, " ")[2] \in {asc, desc}

\* C1: every sequence of "<field> <direction>" strings is translated to a tuple
\* of the same length and order in which a descending element is "-<field>" and
\* an ascending element is "<field>" with no prefix marker.
C1_OrderByTranslated ==
    (call = "order_by" /\ pc = "done"
        /\ \A i \in 1..Len(arg.order_bys) : WellFormedOrderBy(arg.order_bys[i]))
    => /\ res.ok
       /\ Len(res.value) = Len(arg.order_bys)
       /\ \A i \in 1..Len(arg.order_bys) :
            LET parts == split(arg.order_bys[i], " ")
            IN res.value[i] = IF parts[2] = desc THEN <<"-">> \o parts[1]
                              ELSE parts[1]

(***************************************************************************)
(* remove_nones claims                                                     *)
(***************************************************************************)
\* What the claim asks of a result r for an input m, level by level.
RECURSIVE Stripped(_, _)
Stripped(m, r) ==
    /\ DOMAIN r = {k \in DOMAIN m : m[k].tag # "none"}
    /\ \A k \in DOMAIN r :
         IF m[k].tag = "dict"
         THEN r[k].tag = "dict" /\ Stripped(m[k].v, r[k].v)
         ELSE r[k] = m[k]

\* C4: remove_nones(m) holds, at every nesting depth, exactly the keys of m at
\* that depth whose value is not null, each non-mapping value unchanged.
C4_RemoveNonesStrips ==
    (call = "remove_nones" /\ Len(res) >= 1) => Stripped(arg.item, res[1])

C4_Witness ==
    /\ call = "remove_nones"
    /\ Len(res) >= 1
    /\ \E k \in DOMAIN arg.item :
         /\ arg.item[k].tag = "dict"
         /\ \E j \in DOMAIN arg.item[k].v :
              /\ arg.item[k].v[j].tag = "dict"
              /\ \E i \in DOMAIN arg.item[k].v[j].v :
                   arg.item[k].v[j].v[i] = None
              /\ \E i \in DOMAIN res[1][k].v[j].v : TRUE

\* C5: remove_nones is idempotent: applying it to its own result changes nothing.
C5_RemoveNonesIdempotent ==
    (call = "remove_nones" /\ Len(res) >= 2) => res[2] = res[1]

C5_Witness ==
    /\ call = "remove_nones"
    /\ Len(res) >= 2
    /\ res[1] # arg.item
    /\ \E k \in DOMAIN res[1] : res[1][k].tag = "dict"

(***************************************************************************)
(* add_id2fk_fields claims                                                 *)
(***************************************************************************)
FkSet == {arg.fields[i] : i \in 1..Len(arg.fields)}

\* C6: the key set of add_id2fk_fields(data, F) is the keys of data outside F
\* together with the keys of data inside F suffixed with "_id".
C6_AddIdKeySet ==
    (call = "add_id2fk_fields" /\ pc = "done") =>
        DictKeys(res.value) =
            {k \in DictKeys(arg.data) : k \notin FkSet}
            \cup {k \o "_id" : k \in DictKeys(arg.data) \cap FkSet}

C6_Witness ==
    /\ call = "add_id2fk_fields"
    /\ pc = "done"
    /\ DictKeys(arg.data) \cap FkSet # {}
    /\ DictKeys(arg.data) \ FkSet # {}
    /\ DictKeys(res.value) # DictKeys(arg.data)

\* C10: add_id2fk_fields never loses an entry: the result has as many keys as
\* data and every value of data is found under its key or its key with "_id".
C10_AddIdLosesNothing ==
    (call = "add_id2fk_fields" /\ pc = "done") =>
        /\ Len(res.value) = Len(arg.data)
        /\ \A i \in 1..Len(arg.data) :
             \E k \in {arg.data[i][1], arg.data[i][1] \o "_id"} :
                 k \in DictKeys(res.value) /\ DictGet(res.value, k) = arg.data[i][2]

(***************************************************************************)
(* Field mapping claims                                                    *)
(***************************************************************************)
ConfigOf(i) == Get(arg.kwargs, arg.model[i][1], <<>>)

LastSegment(model_name) ==
    LET dots == {i \in 1..Len(model_name) : model_name[i] = "."}
        from == IF dots = {} THEN 1
                ELSE 1 + CHOOSE i \in dots : \A j \in dots : j <= i
    IN SubSeq(model_name, from, Len(model_name))

ExpectedIdentity(model_name, app) ==
    (IF app \in {None, Str(<<>>)} THEN <<>> ELSE app.v \o <<"_">>)
        \o lower(LastSegment(model_name))

\* C2: every relation field (foreign-key, one-to-one, many-to-many) is built
\* as a has-one/has-many field whose identity argument is the lower-cased last
\* segment of the related model's name, prefixed by "<app_name>_" exactly when
\* a non-empty application name is supplied.
C2_RelationIdentity ==
    (call = "tortoise_fields2starlette_fields" /\ pc = "done" /\ res.ok) =>
        \A i \in 1..Len(arg.model) :
            (arg.model[i][2].type \in RelationTypes /\ ConfigOf(i) = <<>>) =>
                /\ res.value[i].cls \in {"HasOne", "HasMany"}
                /\ "identity" \in DOMAIN res.value[i].kwargs
                /\ res.value[i].kwargs["identity"] =
                       Str(ExpectedIdentity(arg.model[i][2].model_name, arg._app_name_))

Unmapped(i) ==
    arg.model[i][2].type \notin DOMAIN tortoise2starlette_admin_fields_mapper

\* C3 as stated: the conversion fails with a lookup failure whenever any field
\* of the model has a type with no entry in the mapping table, and succeeds
\* only if every field type has an entry.
C3_UnmappedTypeFails ==
    (call = "tortoise_fields2starlette_fields" /\ pc = "done") =>
        /\ (\E i \in 1..Len(arg.model) : Unmapped(i)) => res = Raise("KeyError")
        /\ res.ok => \A i \in 1..Len(arg.model) : ~Unmapped(i)

TypeOverridden(i) == "type" \in DOMAIN ConfigOf(i) /\ ConfigOf(i)["type"].tag = "class"

\* C3 amended: the conversion fails with a lookup failure whenever a field
\* whose per-field config supplies no "type" override has a type with no entry
\* in the mapping table, and succeeds only if every field has an override or
\* an entry.
C3_UnmappedTypeFailsUnlessOverridden ==
    (call = "tortoise_fields2starlette_fields" /\ pc = "done") =>
        /\ (\E i \in 1..Len(arg.model) : Unmapped(i) /\ ~TypeOverridden(i))
               => res = Raise("KeyError")
        /\ res.ok => \A i \in 1..Len(arg.model) : ~Unmapped(i) \/ TypeOverridden(i)

C3_Witness ==
    /\ call = "tortoise_fields2starlette_fields"
    /\ pc = "done"
    /\ res = Raise("KeyError")
    /\ Len(arg.model) = 2
    /\ ~Unmapped(1)
    /\ Unmapped(2) /\ ~TypeOverridden(2)

(***************************************************************************)
(* Authentication claims                                                   *)
(***************************************************************************)
KnownUsers == {"admin", "john", "terry", "doe"}

\* C7: login has three outcomes, decided in this order: a username shorter
\* than 3 characters raises the validation error; otherwise a known username
\* with password "password" sets the session cookie to the username and
\* returns the response; otherwise the login-failed error is raised.  The
\* cookie is set in the second outcome only.
C7_LoginOutcomes ==
    (call = "auth" /\ arg # NoArg /\ arg.op = "login") =>
        IF Len(arg.username) < 3
        THEN /\ res.outcome = FormValidationError(
                        [username |-> "Ensure username has at least 03 characters"])
             /\ res.response.set_cookies = NoCookies
        ELSE IF arg.username \in KnownUsers /\ arg.password = "password"
             THEN /\ res.outcome.ok
                  /\ res.outcome.value.set_cookies = [session |-> arg.username]
                  /\ res.outcome.value.del_cookies = {}
             ELSE /\ ~res.outcome.ok
                  /\ res.outcome.exc = "LoginFailed"
                  /\ res.response.set_cookies = NoCookies

C7_Witness ==
    /\ call = "auth"
    /\ arg # NoArg
    /\ arg.op = "login"
    /\ arg.username = "doe"
    /\ res.outcome.ok
    /\ cookies = [session |-> "doe"]

Has(role, user) == \E i \in 1..Len(users[user]) : users[user][i] = role

\* C8: for every user of the users table, the report view is granted iff
\* the roles contain "admin" (403 otherwise), the post list page and list API
\* iff they contain "admin" or "post:list" (403 otherwise), and the delete
\* action answers 200 iff they contain "admin" and 400 otherwise.
C8_RoleGuards ==
    (call = "auth" /\ arg # NoArg /\ arg.op = "request"
        /\ "session" \in DOMAIN cookies /\ cookies["session"] \in KnownUsers) =>
        LET u == cookies["session"]
        IN res.status =
             CASE arg.route = "report" -> IF Has("admin", u) THEN 200 ELSE 403
               [] arg.route \in {"post_list", "api_post"} ->
                    IF Has("admin", u) \/ Has("post:list", u) THEN 200 ELSE 403
               [] arg.route = "api_post_action_delete" ->
                    IF Has("admin", u) THEN 200 ELSE 400

C8_Witness ==
    /\ call = "auth"
    /\ arg # NoArg
    /\ arg.op = "request"
    /\ arg.route = "api_post"
    /\ session = "terry"
    /\ res.status = 200

C9_State ==
    call = "auth" =>
        /\ (arg # NoArg /\ arg.op = "request") =>
              (res.state.authenticated <=>
                  ("session" \in DOMAIN cookies /\ cookies["session"] \in KnownUsers))
        /\ session \in KnownUsers => cookies = [session |-> session]
        /\ session = "out" => "session" \notin DOMAIN cookies

C9_Step ==
    (call = "auth" /\ arg'.op = "login" /\ ~res'.outcome.ok) => cookies' = cookies

\* C9: a request is authenticated exactly when the client holds a session
\* cookie naming a user of the users table; that holds from a successful
\* login until the next logout, a logout removes the cookie until the next
\* successful login, and a failed login leaves the cookie as it was.
C9_SessionLifecycle == []C9_State /\ [][C9_Step]_vars

C9_Witness ==
    /\ call = "auth"
    /\ arg # NoArg
    /\ arg.op = "request"
    /\ session = "out"
    /\ res.status = 303

====
